---- MODULE Spec2Model ----
(***************************************************************************)
(* Coordination core of the home-energy multi-agent system:                *)
(*   - the Dependency-Resolution Hub  (src/agents/facilitating.py)         *)
(*   - the Auction Coordinator        (src/agents/negotiation.py)          *)
(*   - the producers that feed the Hub (src/agents/gui.py, house.py,       *)
(*     prediction.py, demandResponse.py) and the Bus between them          *)
(* Time is counted in whole seconds.                                       *)
(***************************************************************************)
EXTENDS Integers, Sequences, FiniteSets, TLC

VARIABLES
    \* ---- Hub (FacilitatingAgent.MultiAgentHandler) ----
    hnow,                   \* wall clock seen by the Hub
    last_message,           \* role -> [time, msg]
    last_dependency_check,  \* time of the last dependency evaluation, or Unset
    evalTime,               \* clock value of the evaluation made by the last cycle, or NoEval
    outbox,                 \* consumer -> body of the Message sent by the last cycle, or NoBundle
    send_failed,            \* the consumer whose send raised in the last cycle, or "nobody"
    ingested,               \* role -> body of the most recent message received from it, or Never
    ingests,                \* role -> number of messages received from it
    nmsgs,                  \* number of messages delivered to the Hub so far
    \* ---- Auction Coordinator (NegotiationAgent.TradingBehaviour) ----
    cnow,                   \* wall clock seen by the Coordinator
    ledger,                 \* the ledger's timestamps biddingStart, biddingEnd, revealEnd
    bid_accepted,           \* the ledger has accepted a sealed bid of this Coordinator
    bid_amount,             \* LocalBidState: the stored bid value
    total_energy_bought,    \* CumulativeAccount
    total_energy_sold,
    op,                     \* the last operation or cycle: what was invoked, read and returned
    calls,                  \* ledger transactions submitted by the last operation
    audit,                  \* log_blockchain_event calls made by the last operation
    \* ---- the phase function applied to given inputs ----
    phaseIn,                \* [now, start, end, reveal_end]
    phaseOut,               \* the state current_auction_state returned for phaseIn, if any
    phasePrev,              \* the state it returned at the earlier time, if any
    \* ---- dashboard agent (GUIAgent) ----
    current_strategy,       \* GUIAgent.current_strategy
    web,                    \* the last request set_strategy handled, and its response
    store_calls,            \* store_data calls made by the last cycle of guiBehaviour
    \* ---- the Bus and the producers' behaviours ----
    bus,                    \* messages sent to facilitating@localhost, not yet received
    mailbox,                \* role -> messages the Hub has sent to it, not yet received
    cycles,                 \* agent -> number of cycles its behaviour has completed
    \* ---- two Coordinators on one ledger ----
    chain,                  \* the auction on the shared ledger and the result it reports
    books,                  \* account -> that Coordinator's totals and its last closeAuction
    \* ---- the Coordinator's process ----
    dropped                 \* what the last restart found stored and on the ledger

hubVars == <<hnow, last_message, last_dependency_check, evalTime, outbox, send_failed,
             ingested, ingests, nmsgs>>

coordVars == <<cnow, ledger, bid_accepted, bid_amount, total_energy_bought, total_energy_sold,
               op, calls, audit>>

phaseVars == <<phaseIn, phaseOut, phasePrev>>

guiVars == <<current_strategy, web, store_calls>>

busVars == <<bus, mailbox, cycles>>

pairVars == <<chain, books>>

processVars == <<dropped>>

agentVars == <<guiVars, busVars, pairVars, processVars>>

vars == <<hubVars, coordVars, phaseVars, agentVars>>

----------------------------------------------------------------------------
(* Bounds of the model *)
MaxHubTime == 38      \* the Hub's clock stops here
MaxMsgs == 2          \* messages delivered to the Hub in one run
MaxCoordTime == 20    \* the Coordinator's clock stops here
MaxEnergy == 2        \* largest energy amount the ledger reports
MaxTotal == 2         \* the cumulative totals are not driven beyond this
MaxPrice == 1         \* largest bid price and clearing price
MaxT0 == 0            \* largest origin t0 of the phase function's time points
MaxHalves == 3        \* largest energy amount offered to startAuction, in half units
MaxRounds == 1        \* auctions held on the shared ledger
MaxRestarts == 1      \* restarts of the Coordinator's process
MaxSent == 3          \* messages the producers send to the Hub
MaxCycles == 2        \* cycles each producer's behaviour runs

----------------------------------------------------------------------------
(* Hub: constants of the code *)
receive_timeout == 5
dependency_check_interval == 5
max_dependency_age == 30
loop_sleep == 1
float_inf == 1000000
datetime_min == -1

Unset == -2
NoEval == -3

dependencies ==
    [ gui |-> <<"house", "negotiation", "behavioralsegmentation">>,
      prediction |-> <<"house">>,
      demandresponse |-> <<"grid", "house">>,
      negotiation |-> <<"house", "prediction", "demandresponse", "gui">>,
      behavioralsegmentation |-> <<"house", "demandresponse">>,
      grid |-> <<>>,
      house |-> <<>> ]

Roles == DOMAIN dependencies

Range(s) == {s[i] : i \in DOMAIN s}

(* Python values held in the cache *)
None == [type |-> "None", v |-> 0]
PyDict(n) == [type |-> "dict", v |-> n]
PyStr(n) == [type |-> "str", v |-> n]

(* Message bodies on the Bus *)
JsonObj(n) == [kind |-> "json_obj", val |-> n]     \* '{"v": n}'
JsonStr(n) == [kind |-> "json_str", val |-> n]     \* '"text n"'
JsonNull == [kind |-> "json_null", val |-> 0]      \* 'null'
Text(n) == [kind |-> "text", val |-> n]            \* 'text n', not JSON
NoBody == [kind |-> "none", val |-> 0]             \* msg.body is None

(* The bodies the n-th message on the Bus may carry: every message has its own content *)
Bodies(n) == {JsonObj(n), Text(n), JsonNull, NoBody}

(* The agents of the repository that send to facilitating@localhost, and one
   sender that is no registered role *)
Senders == {"house", "prediction", "demandresponse", "gui", "stranger"}

(* Seconds a receive that returns a message has waited (at most receive_timeout):
   the message is already queued when receive is called *)
RecvWaits == {0}

NoMsg == [sender |-> "nobody", body |-> NoBody]
Never == [kind |-> "never", val |-> 0]
NoBundle == [kind |-> "no_bundle", val |-> 0]

(* json.loads: the parsed value, or the exception raised *)
json_loads(body) ==
    CASE body.kind = "json_obj" -> [raised |-> "no", value |-> PyDict(body.val)]
      [] body.kind = "json_str" -> [raised |-> "no", value |-> PyStr(body.val)]
      [] body.kind = "json_null" -> [raised |-> "no", value |-> None]
      [] body.kind = "text" -> [raised |-> "JSONDecodeError", value |-> None]
      [] OTHER -> [raised |-> "TypeError", value |-> None]

(* json.dumps of one Python value *)
json_dumps(value) ==
    CASE value.type = "dict" -> JsonObj(value.v)
      [] value.type = "str" -> JsonStr(value.v)
      [] OTHER -> JsonNull

(* json.dumps of dict_to_send: one encoded entry per key *)
json_dumps_dict(d) == [kind |-> "bundle", val |-> [k \in DOMAIN d |-> json_dumps(d[k])]]

time_from_now(message_timing, t) ==
    IF message_timing.time = datetime_min THEN float_inf
    ELSE t - message_timing.time

(* Store Message: lines 59-75 *)
StoredMsg(body) ==
    LET p == json_loads(body) IN
    CASE p.raised = "no" -> p.value
      [] p.raised = "JSONDecodeError" -> PyStr(body.val)
      [] OTHER -> None

Store_Unregistered(lm, m, t) ==
    IF m = NoMsg THEN lm
    ELSE [r \in DOMAIN lm \cup {m.sender} |-> 
             IF r = m.sender THEN [time |-> t, msg |-> StoredMsg(m.body)] ELSE lm[r]]

Store_KeepsFirst(lm, m, t) ==
    IF m = NoMsg THEN lm
    ELSE IF m.sender \in DOMAIN lm
         THEN [lm EXCEPT ![m.sender] =
                 [time |-> t, msg |-> IF @.msg = None THEN StoredMsg(m.body) ELSE @.msg]]
         ELSE lm

Store(lm, m, t) ==
    IF m = NoMsg THEN lm
    ELSE IF m.sender \in DOMAIN lm
         THEN [lm EXCEPT ![m.sender] = [time |-> t, msg |-> StoredMsg(m.body)]]
         ELSE lm

IsUnresolved_NoAgeTest(dep_data, t) == dep_data.msg = None

(* One dependency of a target is unresolved: line 104 *)
IsUnresolved(dep_data, t) ==
    dep_data.msg = None \/ time_from_now(dep_data, t) > max_dependency_age

unresolved_dependencies(target, lm, t) ==
    {d \in Range(dependencies[target]) : d \notin DOMAIN lm \/ IsUnresolved(lm[d], t)}

dict_to_send(target, lm, t) ==
    [d \in Range(dependencies[target]) \ unresolved_dependencies(target, lm, t) |-> lm[d].msg]

can_resolve(target, lm, t) == unresolved_dependencies(target, lm, t) = {}

Dispatch_FailureBlocksAll(target, lm, t, failing) ==
    IF dependencies[target] = <<>> \/ failing # "nobody" THEN NoBundle
    ELSE IF can_resolve(target, lm, t)
         THEN json_dumps_dict(dict_to_send(target, lm, t))
         ELSE NoBundle

Dispatch_SkipsUnchanged(target, lm, t, failing) ==
    IF dependencies[target] = <<>> THEN NoBundle
    ELSE IF /\ can_resolve(target, lm, t)
            /\ target # failing
            /\ \E d \in Range(dependencies[target]) : lm[d].time >= last_dependency_check
         THEN json_dumps_dict(dict_to_send(target, lm, t))
         ELSE NoBundle

(* What the evaluation sends to one target: lines 85-123 *)
Dispatch(target, lm, t, failing) ==
    IF dependencies[target] = <<>> THEN NoBundle
    ELSE IF can_resolve(target, lm, t) /\ target # failing
         THEN json_dumps_dict(dict_to_send(target, lm, t))
         ELSE NoBundle

DependencyCheckDue(t) ==
    last_dependency_check = Unset \/ t - last_dependency_check > dependency_check_interval

(* One pass of MultiAgentHandler.run: receive (d seconds), store, evaluate, sleep *)
HubCycle(m, d, failing) ==
    LET t == hnow + d
        lm == Store(last_message, m, t)
    IN /\ t + loop_sleep <= MaxHubTime
       /\ failing # "nobody" => /\ DependencyCheckDue(t)
                               /\ dependencies[failing] # <<>>
                               /\ can_resolve(failing, lm, t)
       /\ hnow' = t + loop_sleep
       /\ last_message' = lm
       /\ ingested' = IF m # NoMsg /\ m.sender \in Roles
                      THEN [ingested EXCEPT ![m.sender] = m.body] ELSE ingested
       /\ ingests' = IF m # NoMsg /\ m.sender \in Roles
                     THEN [ingests EXCEPT ![m.sender] = @ + 1] ELSE ingests
       /\ nmsgs' = IF m = NoMsg THEN nmsgs ELSE nmsgs + 1
       /\ send_failed' = failing
       /\ UNCHANGED <<coordVars, phaseVars, guiVars, cycles, pairVars, processVars>>
       /\ IF DependencyCheckDue(t)
          THEN /\ last_dependency_check' = t
               /\ evalTime' = t
               /\ outbox' = [c \in Roles |-> Dispatch(c, lm, t, failing)]
          ELSE /\ UNCHANGED last_dependency_check
               /\ evalTime' = NoEval
               /\ outbox' = [c \in Roles |-> NoBundle]

HubReceive ==
    /\ nmsgs < MaxMsgs
    /\ UNCHANGED <<bus, mailbox>>
    /\ \E s \in Senders, b \in Bodies(nmsgs + 1), d \in RecvWaits, f \in Roles \cup {"nobody"} :
          HubCycle([sender |-> s, body |-> b], d, f)

HubTimeout ==
    /\ UNCHANGED <<bus, mailbox>>
    /\ \E f \in Roles \cup {"nobody"} : HubCycle(NoMsg, receive_timeout, f)

Producers_All == Roles

(* The registered roles that send to the Hub: every role but negotiation, whose run
   loop receives and never sends *)
Producers == Roles \ {"negotiation"}

(* A message of one of the producers reaches the Hub *)
ProducerReceive ==
    /\ nmsgs < MaxSent
    /\ UNCHANGED <<bus, mailbox>>
    /\ \E s \in Producers, d \in RecvWaits :
          HubCycle([sender |-> s, body |-> JsonObj(nmsgs + 1)], d, "nobody")

(* The receive of a cycle times out and every send of its evaluation succeeds *)
QuietTimeout ==
    /\ UNCHANGED <<bus, mailbox>>
    /\ HubCycle(NoMsg, receive_timeout, "nobody")

(* The documented dispatch scenario: house sends at t = 0, prediction at t = 2,
   demandresponse at t = 3, gui at t = 5, and a message that reaches the Hub at t = 6
   lets the cycle that evaluates start then *)
Script ==
    << [sender |-> "house", at |-> 0], [sender |-> "prediction", at |-> 2],
       [sender |-> "demandresponse", at |-> 3], [sender |-> "gui", at |-> 5],
       [sender |-> "stranger", at |-> 6] >>

ScriptBodies(k) == {JsonObj(k), Text(k)}

(* The first k messages of the script are the ones the Hub has received *)
ScriptPrefix(k) ==
    /\ nmsgs = k
    /\ \A j \in 1..Len(Script) :
          LET r == Script[j].sender IN
          r \in Roles =>
             IF j <= k THEN ingests[r] = 1 /\ last_message[r].time = Script[j].at
             ELSE ingests[r] = 0

(* The next message of the script arrives while the Hub waits in receive *)
ScriptReceive ==
    \E k \in 1..Len(Script) :
        /\ ScriptPrefix(k - 1)
        /\ Script[k].at >= hnow
        /\ Script[k].at - hnow < receive_timeout
        /\ UNCHANGED <<bus, mailbox>>
        /\ \E b \in ScriptBodies(k) :
              HubCycle([sender |-> Script[k].sender, body |-> b], Script[k].at - hnow, "nobody")

----------------------------------------------------------------------------
(* Auction Coordinator: src/agents/negotiation.py *)

ZERO_ADDRESS == "0x0000000000000000000000000000000000000000"
Self == "account0"          \* self.account = self.accounts[0]
Other == "account1"         \* any other participant
nonce == "mainhouse_negotiation"

(* Seconds a receive of the Coordinator that returns a message has waited *)
CoordRecvWaits == {0}
coord_receive_timeout == 10
disconnected_sleep == 10
close_wait == 2
close_sleep == 5
cycle_sleep == 3
(* Sleep after an exception reaches the run loop: 20 s for ConnectionError, else 10 s *)
ErrorSleeps == {10, 20}

NoAuction == [biddingStart |-> 0, biddingEnd |-> 0, revealEnd |-> 0]

(* The timestamps the ledger may hold for an auction started at time t *)
StartDelays == {3}
BidWindows == {3}
RevealWindows == {3}
NewAuction(t) ==
    {[biddingStart |-> t + a, biddingEnd |-> t + a + b, revealEnd |-> t + a + b + c] :
        a \in StartDelays, b \in BidWindows, c \in RevealWindows}

(* What the ledger may report when an auction is closed *)
Winners == {Self, Other, ZERO_ADDRESS}
Sellers == {Self, Other}
Energies == 1..MaxEnergy
Prices == 0..MaxPrice

(* Inbound messages of one run cycle *)
MsgKinds == {"none", "deficit", "surplus", "balanced", "not_json", "incomplete"}

(* An absent value (Python None) is the empty set, a present one a singleton *)
NoValue == {}

Entry(event_type, energy, price, counterparty, status) ==
    [event_type |-> event_type, energy |-> energy, price |-> price,
     counterparty |-> counterparty, status |-> status]

Call(fn, args) == [fn |-> fn, args |-> args]

(* log_current_balance: one Balance entry, Failed when the balance cannot be read;
   it never raises *)
log_current_balance(event, bal_ok) ==
    <<Entry(event, NoValue, NoValue, "None", IF bal_ok THEN "Success" ELSE "Failed")>>

create_sealed_bid(value_wei, n) == [keccak |-> <<value_wei, n>>]

get_auction_timings(timings_ok) == IF timings_ok THEN ledger ELSE NoAuction

current_auction_state_RevealEndExcluded(current_time, bidding_start, bidding_end, reveal_end) ==
    IF bidding_start = 0 THEN -1
    ELSE IF current_time < bidding_start THEN 0
    ELSE IF current_time < bidding_end THEN 1
    ELSE IF current_time < reveal_end THEN 2
    ELSE 3

current_auction_state_WindowsSwapped(current_time, bidding_start, bidding_end, reveal_end) ==
    IF bidding_start = 0 THEN -1
    ELSE IF current_time < bidding_start THEN 0
    ELSE IF current_time < bidding_end THEN 2
    ELSE IF current_time <= reveal_end THEN 1
    ELSE 3

current_auction_state(current_time, bidding_start, bidding_end, reveal_end) ==
    IF bidding_start = 0 THEN -1
    ELSE IF current_time < bidding_start THEN 0
    ELSE IF current_time < bidding_end THEN 1
    ELSE IF current_time <= reveal_end THEN 2
    ELSE 3

round_NextInteger(h) == h \div 2 + 1

(* int(round(x)) for x given in half units: Python rounds halves to the even integer *)
round_half_even(h) ==
    LET q == h \div 2 IN
    IF h % 2 = 0 THEN q ELSE IF q % 2 = 0 THEN q ELSE q + 1

AmountRejected_NegativeOnly(contract_energy_unit) == contract_energy_unit < 0

(* start_auction, line 195: the rounded amount is zero or less *)
AmountRejected(contract_energy_unit) == contract_energy_unit <= 0

AuctionInProgress_ByLedger(tm, t) == ledger.biddingStart # 0 /\ t < ledger.revealEnd

AuctionInProgress_UntilBiddingEnd(tm, t) == tm.biddingStart # 0 /\ t < tm.biddingEnd

(* start_auction: the in-progress test of line 191 *)
AuctionInProgress(tm, t) == tm.biddingStart # 0 /\ t < tm.revealEnd

(* start_auction(energy_amount_kwh), the amount given in half units *)
start_auction(h, t, timings_ok, tx_ok, bal_ok) ==
    LET tm == get_auction_timings(timings_ok)
        contract_energy_unit == round_half_even(h)
    IN IF AuctionInProgress(tm, t)
       THEN [result |-> "False", calls |-> <<>>, audit |-> <<>>, tx |-> FALSE]
       ELSE IF AmountRejected(contract_energy_unit)
       THEN [result |-> "False", calls |-> <<>>, audit |-> <<>>, tx |-> FALSE]
       ELSE IF tx_ok /\ bal_ok
       THEN [result |-> "True",
             calls |-> <<Call("startAuction", <<contract_energy_unit>>)>>,
             audit |-> log_current_balance("Balance Post-AuctionStart", TRUE)
                       \o <<Entry("Auction Start", {2 * contract_energy_unit}, NoValue,
                                  "None", "Success")>>,
             tx |-> TRUE]
       ELSE IF tx_ok
       THEN [result |-> "raised",
             calls |-> <<Call("startAuction", <<contract_energy_unit>>)>>,
             audit |-> log_current_balance("Balance Post-AuctionStart", FALSE)
                       \o log_current_balance("Balance Post-AuctionStartFail", FALSE),
             tx |-> TRUE]
       ELSE IF bal_ok
       THEN [result |-> "False",
             calls |-> <<Call("startAuction", <<contract_energy_unit>>)>>,
             audit |-> log_current_balance("Balance Post-AuctionStartFail", TRUE)
                       \o <<Entry("Auction Start", {h}, NoValue, "None", "Failed")>>,
             tx |-> FALSE]
       ELSE [result |-> "raised",
             calls |-> <<Call("startAuction", <<contract_energy_unit>>)>>,
             audit |-> log_current_balance("Balance Post-AuctionStartFail", FALSE),
             tx |-> FALSE]

(* bid(price_wei): the stored bid is written before the ledger call *)
bid_RollsBack(price_wei, tx_ok, bal_ok) ==
    LET sealed_bid == create_sealed_bid(price_wei, nonce)
        call == <<Call("bid", <<sealed_bid, price_wei>>)>>
    IN IF tx_ok /\ bal_ok
       THEN [result |-> "None", bid_amount |-> price_wei, calls |-> call, tx |-> TRUE,
             audit |-> log_current_balance("Balance Post-Bid", TRUE)
                       \o <<Entry("Bid", NoValue, {price_wei}, "None", "Success")>>]
       ELSE [result |-> "None", bid_amount |-> 0, calls |-> call, tx |-> FALSE,
             audit |-> log_current_balance("Balance Post-BidFail", bal_ok)
                       \o <<Entry("Bid", NoValue, {price_wei}, "None", "Failed")>>]

(* bid(): the bid is stored (set_bid_amount, line 209) before the sealed bid is
   computed and the transaction submitted; the except branch leaves it stored *)
bid(price_wei, tx_ok, bal_ok) ==
    LET sealed_bid == create_sealed_bid(price_wei, nonce)
        call == <<Call("bid", <<sealed_bid, price_wei>>)>>
    IN IF tx_ok /\ bal_ok
       THEN [result |-> "None", bid_amount |-> price_wei, calls |-> call, tx |-> TRUE,
             audit |-> log_current_balance("Balance Post-Bid", TRUE)
                       \o <<Entry("Bid", NoValue, {price_wei}, "None", "Success")>>]
       ELSE IF tx_ok
       THEN [result |-> "raised", bid_amount |-> price_wei, calls |-> call, tx |-> TRUE,
             audit |-> log_current_balance("Balance Post-Bid", FALSE)
                       \o log_current_balance("Balance Post-BidFail", FALSE)]
       ELSE IF bal_ok
       THEN [result |-> "None", bid_amount |-> price_wei, calls |-> call, tx |-> FALSE,
             audit |-> log_current_balance("Balance Post-BidFail", TRUE)
                       \o <<Entry("Bid", NoValue, {price_wei}, "None", "Failed")>>]
       ELSE [result |-> "raised", bid_amount |-> price_wei, calls |-> call, tx |-> FALSE,
             audit |-> log_current_balance("Balance Post-BidFail", FALSE)]

reveal_NoGuard(stored, tx_ok, bal_ok) ==
    [result |-> "None", calls |-> <<Call("reveal", <<stored, nonce>>)>>, tx |-> tx_ok,
     audit |-> log_current_balance("Balance Post-Reveal", bal_ok)
               \o <<Entry("Reveal", NoValue, {stored}, "None",
                          IF tx_ok THEN "Success" ELSE "Failed")>>]

(* reveal(): nothing when no bid is stored; the stored bid is left as it is *)
reveal(stored, tx_ok, bal_ok) ==
    LET call == <<Call("reveal", <<stored, nonce>>)>>
    IN IF stored <= 0
       THEN [result |-> "None", calls |-> <<>>, audit |-> <<>>, tx |-> FALSE]
       ELSE IF tx_ok /\ bal_ok
       THEN [result |-> "None", calls |-> call, tx |-> TRUE,
             audit |-> log_current_balance("Balance Post-Reveal", TRUE)
                       \o <<Entry("Reveal", NoValue, {stored}, "None", "Success")>>]
       ELSE IF tx_ok
       THEN [result |-> "raised", calls |-> call, tx |-> TRUE,
             audit |-> log_current_balance("Balance Post-Reveal", FALSE)
                       \o log_current_balance("Balance Post-RevealFail", FALSE)]
       ELSE IF bal_ok
       THEN [result |-> "None", calls |-> call, tx |-> FALSE,
             audit |-> log_current_balance("Balance Post-RevealFail", TRUE)
                       \o <<Entry("Reveal", NoValue, {stored}, "None", "Failed")>>]
       ELSE [result |-> "raised", calls |-> call, tx |-> FALSE,
             audit |-> log_current_balance("Balance Post-RevealFail", FALSE)]

ClassifyEvent_SellerFirst(winner, contract_seller, account) ==
    IF winner # ZERO_ADDRESS /\ contract_seller = account THEN "Auction Sell"
    ELSE IF winner = account THEN "Auction Buy"
    ELSE IF winner # ZERO_ADDRESS THEN "Auction End (Lost)"
    ELSE "Auction End (No Winner)"

ClassifyEvent_SelfTradeUnhandled(winner, contract_seller, account) ==
    IF winner = account /\ contract_seller # account THEN "Auction Buy"
    ELSE IF winner # account /\ winner # ZERO_ADDRESS /\ contract_seller = account
    THEN "Auction Sell"
    ELSE IF winner = ZERO_ADDRESS THEN "Auction End (No Winner)"
    ELSE IF winner # account /\ contract_seller # account THEN "Auction End (Lost)"
    ELSE "Auction End"

ClassifyEvent_LostAsSell(winner, contract_seller, account) ==
    IF winner = account THEN "Auction Buy"
    ELSE IF winner # ZERO_ADDRESS THEN "Auction Sell"
    ELSE "Auction End (No Winner)"

(* closeAuction, lines 261-279: the event type of the outcome *)
ClassifyEvent(winner, contract_seller, account) ==
    IF winner = account THEN "Auction Buy"
    ELSE IF winner # ZERO_ADDRESS
    THEN IF account = contract_seller THEN "Auction Sell" ELSE "Auction End (Lost)"
    ELSE "Auction End (No Winner)"

bought_add_One(event_type, energy_kwh) ==
    IF event_type = "Auction Buy" THEN 1 ELSE 0

(* line 267: total_energy_bought += energy_kwh in the Buy branch only *)
bought_add(event_type, energy_kwh) ==
    IF event_type = "Auction Buy" THEN energy_kwh ELSE 0

sold_add_Refund(event_type, energy_kwh) ==
    IF event_type = "Auction Sell" THEN energy_kwh
    ELSE IF event_type = "Auction End (Lost)" THEN 0 - energy_kwh
    ELSE 0

sold_add_One(event_type, energy_kwh) ==
    IF event_type = "Auction Sell" THEN 1 ELSE 0

(* line 273: total_energy_sold += energy_kwh in the Sell branch only *)
sold_add(event_type, energy_kwh) ==
    IF event_type = "Auction Sell" THEN energy_kwh ELSE 0

log_price_of_Always(event_type, final_price) == {final_price}

(* lines 262 and 279: the price logged, None when there is no winner *)
log_price_of(event_type, final_price) ==
    IF event_type = "Auction End (No Winner)" THEN NoValue ELSE {final_price}

(* lines 263, 268, 274, 278: the counterparty logged *)
log_counterparty_of(event_type, winner, contract_seller) ==
    CASE event_type = "Auction Buy" -> contract_seller
      [] event_type \in {"Auction Sell", "Auction End (Lost)"} -> winner
      [] OTHER -> "None"

Classify(winner, contract_seller, account, energy_kwh, final_price) ==
    LET event_type == ClassifyEvent(winner, contract_seller, account) IN
    [event_type |-> event_type,
     bought |-> bought_add(event_type, energy_kwh),
     sold |-> sold_add(event_type, energy_kwh),
     log_price |-> log_price_of(event_type, final_price),
     log_counterparty |-> log_counterparty_of(event_type, winner, contract_seller)]

reset_bid_Keeps(stored) == stored

(* lines 288 and 297: self.bid_amount = 0 *)
reset_bid(stored) == 0

closeAuction_failed_CreditsBuy(tx, bal_ok, dt, before) ==
    [closed |-> "failed", tx |-> tx, dt |-> dt, bid_amount |-> reset_bid(bid_amount),
     bought |-> 1, sold |-> 0,
     calls |-> <<Call("closeAuction", <<>>)>>,
     audit |-> before \o log_current_balance("Balance Post-CloseFail", bal_ok)]

(* The except branch of closeAuction, lines 290-297; before holds the entries logged
   by the try block before the exception *)
closeAuction_failed(tx, bal_ok, dt, before) ==
    [closed |-> "failed", tx |-> tx, dt |-> dt, bid_amount |-> reset_bid(bid_amount), bought |-> 0, sold |-> 0,
     calls |-> <<Call("closeAuction", <<>>)>>,
     audit |-> before
               \o log_current_balance("Balance Post-CloseFail", bal_ok)
               \o (IF bal_ok
                   THEN <<Entry("Auction End", NoValue, NoValue, "None", "Failed")>>
                   ELSE <<>>)]

(* closeAuction(): fail_at names the first ledger call that raises: the transaction
   ("tx"), a read-back of the result ("read"), or none; bal_ok says whether the
   account balance can be read *)
closeAuction_by(account, fail_at, bal_ok, winner, contract_seller, energy_kwh, final_price) ==
    IF fail_at = "tx" THEN closeAuction_failed(FALSE, bal_ok, 0, <<>>)
    ELSE IF fail_at = "read" THEN closeAuction_failed(TRUE, bal_ok, close_wait, <<>>)
    ELSE IF ~bal_ok
    THEN closeAuction_failed(TRUE, FALSE, close_wait,
                             log_current_balance("Balance Post-Close", FALSE))
    ELSE LET c == Classify(winner, contract_seller, account, energy_kwh, final_price) IN
         [closed |-> "ok", tx |-> TRUE, dt |-> close_wait, bid_amount |-> reset_bid(bid_amount),
          bought |-> c.bought, sold |-> c.sold,
          calls |-> <<Call("closeAuction", <<>>)>>,
          audit |-> log_current_balance("Balance Post-Close", TRUE)
                    \o <<Entry(c.event_type, {2 * energy_kwh}, c.log_price,
                               c.log_counterparty, "Success")>>]

(* closeAuction() of the Coordinator whose account is self.accounts[0] *)
closeAuction(fail_at, bal_ok, winner, contract_seller, energy_kwh, final_price) ==
    closeAuction_by(Self, fail_at, bal_ok, winner, contract_seller, energy_kwh, final_price)

----------------------------------------------------------------------------
(* Coordinator: operations *)

Halves == -1..MaxHalves
FailPoints == {"none", "tx", "read"}

(* What is remembered of the last operation *)
NoOp ==
    [name |-> "none",        \* the operation invoked, or "run" for a cycle of the loop
     result |-> "None",      \* what it returned, or "raised"
     at |-> 0,               \* the time it was invoked
     timings |-> NoAuction,  \* the timings it read from the ledger
     phase |-> NoValue,      \* the state derived from them
     amount |-> 0,           \* the amount given to start_auction, in half units
     bid_before |-> 0,       \* the stored bid when it was invoked
     tx |-> FALSE,           \* its ledger transaction went through
     closed |-> "none",      \* closeAuction: "ok" (try block completed) or "failed"
     winner |-> "None",      \* closeAuction: what it read back
     seller |-> "None",
     energy |-> 0,
     msg |-> "none",         \* run: the kind of message received
     waited |-> 0,           \* run: the seconds spent in receive
     methods |-> <<>>]       \* the operations invoked

(* The state of the ledger after a transaction of this Coordinator went through *)
LedgerAfterStart(t) == NewAuction(t)
LedgerAfterClose == {ledger, NoAuction}

StartAuctionStep(h, timings_ok, tx_ok, bal_ok) ==
    LET r == start_auction(h, cnow, timings_ok, tx_ok, bal_ok)
        tm == get_auction_timings(timings_ok)
    IN /\ op' = [NoOp EXCEPT !.name = "start_auction", !.result = r.result,
                             !.at = cnow, !.timings = tm,
                             !.phase = {current_auction_state(cnow, tm.biddingStart,
                                            tm.biddingEnd, tm.revealEnd)},
                             !.amount = h, !.bid_before = bid_amount,
                             !.tx = r.tx, !.methods = <<"start_auction">>]
       /\ calls' = r.calls
       /\ audit' = r.audit
       /\ IF r.tx THEN ledger' \in LedgerAfterStart(cnow) ELSE UNCHANGED ledger
       /\ UNCHANGED <<cnow, bid_accepted, bid_amount, total_energy_bought,
                      total_energy_sold>>
       /\ UNCHANGED <<hubVars, phaseVars, agentVars>>

(* start_auction is called with some amount; the ledger calls it makes succeed or fail *)
StartAuction ==
    \E h \in Halves, timings_ok \in BOOLEAN :
        IF start_auction(h, cnow, timings_ok, TRUE, TRUE).calls = <<>>
        THEN StartAuctionStep(h, timings_ok, TRUE, TRUE)
        ELSE \E tx_ok, bal_ok \in BOOLEAN : StartAuctionStep(h, timings_ok, tx_ok, bal_ok)

Bid ==
    \E price_wei \in Prices, tx_ok, bal_ok \in BOOLEAN :
        LET r == bid(price_wei, tx_ok, bal_ok)
        IN /\ bid_amount' = r.bid_amount
           /\ op' = [NoOp EXCEPT !.name = "bid", !.result = r.result, !.at = cnow,
                                 !.bid_before = bid_amount,
                                 !.tx = r.tx, !.methods = <<"bid">>]
           /\ calls' = r.calls
           /\ audit' = r.audit
           /\ bid_accepted' = (bid_accepted \/ r.tx)
           /\ UNCHANGED <<cnow, ledger, total_energy_bought, total_energy_sold>>
           /\ UNCHANGED <<hubVars, phaseVars, agentVars>>

RevealStep(tx_ok, bal_ok) ==
    LET r == reveal(bid_amount, tx_ok, bal_ok)
    IN /\ op' = [NoOp EXCEPT !.name = "reveal", !.result = r.result, !.at = cnow,
                             !.bid_before = bid_amount,
                             !.tx = r.tx, !.methods = <<"reveal">>]
       /\ calls' = r.calls
       /\ audit' = r.audit
       /\ UNCHANGED <<cnow, ledger, bid_accepted, bid_amount, total_energy_bought,
                      total_energy_sold>>
       /\ UNCHANGED <<hubVars, phaseVars, agentVars>>

Reveal ==
    IF bid_amount <= 0 THEN RevealStep(TRUE, TRUE)
    ELSE \E tx_ok, bal_ok \in BOOLEAN : RevealStep(tx_ok, bal_ok)

(* No restart so far *)
NoDrop == [n |-> 0, bid |-> 0, accepted |-> FALSE, timings |-> NoAuction]

on_start_bid_amount_Restored(stored) == stored

(* on_start, line 144: self.bid_amount = 0 *)
on_start_bid_amount(stored) == 0

(* The Coordinator's process is started again: __init__ (lines 89-93) zeroes the
   totals, on_start (lines 109-147) zeroes the stored bid and logs the balance. The
   ledger keeps what it holds. *)
Restart ==
    \E bal_ok \in BOOLEAN :
        /\ dropped.n < MaxRestarts
        /\ dropped' = [n |-> dropped.n + 1, bid |-> bid_amount, accepted |-> bid_accepted,
                       timings |-> ledger]
        /\ bid_amount' = on_start_bid_amount(bid_amount)
        /\ total_energy_bought' = 0
        /\ total_energy_sold' = 0
        /\ op' = [NoOp EXCEPT !.name = "restart", !.at = cnow, !.bid_before = bid_amount]
        /\ calls' = <<>>
        /\ audit' = log_current_balance("Balance Init", bal_ok)
        /\ UNCHANGED <<cnow, ledger, bid_accepted>>
        /\ UNCHANGED <<hubVars, phaseVars, guiVars, busVars, pairVars>>

(* run(), lines 313-315: web3 is not connected *)
RunDisconnected ==
    /\ cnow + disconnected_sleep <= MaxCoordTime
    /\ cnow' = cnow + disconnected_sleep
    /\ op' = [NoOp EXCEPT !.name = "run", !.at = cnow, !.msg = "disconnected",
                          !.bid_before = bid_amount]
    /\ calls' = <<>>
    /\ audit' = <<>>
    /\ UNCHANGED <<ledger, bid_accepted, bid_amount, total_energy_bought,
                   total_energy_sold>>
    /\ UNCHANGED <<hubVars, phaseVars, agentVars>>

ShouldClose_Never(current_state) == FALSE

(* run(), line 320: the cycle closes when the derived state is 3 *)
ShouldClose(current_state) == current_state = 3

CycleState_FromMemory(timings_ok) ==
    LET tm == get_auction_timings(timings_ok)
    IN IF bid_amount > 0 THEN 2
       ELSE current_auction_state(cnow, tm.biddingStart, tm.biddingEnd, tm.revealEnd)

(* The phase a cycle that starts now derives from the timings it reads *)
CycleState(timings_ok) ==
    LET tm == get_auction_timings(timings_ok)
    IN current_auction_state(cnow, tm.biddingStart, tm.biddingEnd, tm.revealEnd)

RunCloseStep(fail_at, bal_ok, winner, seller, energy, price) ==
    LET r == closeAuction(fail_at, bal_ok, winner, seller, energy, price)
    IN /\ cnow + r.dt + close_sleep <= MaxCoordTime
       /\ total_energy_bought + r.bought <= MaxTotal
       /\ total_energy_sold + r.sold <= MaxTotal
       /\ cnow' = cnow + r.dt + close_sleep
       /\ bid_amount' = r.bid_amount
       /\ total_energy_bought' = total_energy_bought + r.bought
       /\ total_energy_sold' = total_energy_sold + r.sold
       /\ calls' = r.calls
       /\ audit' = r.audit
       /\ IF r.tx THEN ledger' \in LedgerAfterClose ELSE UNCHANGED ledger
       /\ UNCHANGED bid_accepted
       /\ op' = [NoOp EXCEPT !.name = "run", !.at = cnow, !.timings = ledger,
                             !.bid_before = bid_amount, !.phase = {3}, !.tx = r.tx, !.closed = r.closed,
                             !.winner = IF r.closed = "ok" THEN winner ELSE "None",
                             !.seller = IF r.closed = "ok" THEN seller ELSE "None",
                             !.energy = IF r.closed = "ok" THEN energy ELSE 0,
                             !.methods = <<"closeAuction">>]
       /\ UNCHANGED <<hubVars, phaseVars, agentVars>>

(* run(), line 320: the derived state is 3; closeAuction, sleep, return without
   receiving. The result on the ledger is read only by a close that gets that far. *)
RunClose ==
    /\ ShouldClose(CycleState(TRUE))
    /\ \E fail_at \in FailPoints, bal_ok \in BOOLEAN :
          IF fail_at = "none" /\ bal_ok
          THEN \E winner \in Winners, seller \in Sellers, energy \in Energies,
                  price \in Prices :
                   RunCloseStep(fail_at, bal_ok, winner, seller, energy, price)
          ELSE RunCloseStep(fail_at, bal_ok, ZERO_ADDRESS, Other, 1, 0)

message_handling_ActsOnAnyMessage(msg, current_state) ==
    IF msg = "none" THEN <<>>
    ELSE IF current_state = 1 THEN <<"bid">>
    ELSE IF current_state = -1 THEN <<"start_auction">>
    ELSE <<>>

(* run(), lines 324-380: the operations the handling of the received message invokes.
   The deficit and surplus branches hold no call; every other message ends the
   handling before them. *)
message_handling(msg, current_state) == <<>>

RevealState_AfterReceive(timings_ok, d) ==
    LET tm == get_auction_timings(timings_ok)
    IN current_auction_state(cnow + d, tm.biddingStart, tm.biddingEnd, tm.revealEnd)

(* run(), line 383: the state tested after the receive is current_state, the value
   derived at line 318 before the receive that took d seconds *)
RevealState(timings_ok, d) == CycleState(timings_ok)

RunReceiveStep(timings_ok, msg, d, reveals, r, err) ==
    LET dt == d + (IF msg = "incomplete" THEN 0 ELSE err + cycle_sleep)
    IN /\ cnow + dt <= MaxCoordTime
       /\ cnow' = cnow + dt
       /\ op' = [NoOp EXCEPT !.name = "run", !.at = cnow,
                             !.timings = get_auction_timings(timings_ok),
                             !.phase = {CycleState(timings_ok)}, !.msg = msg,
                             !.waited = d,
                             !.bid_before = bid_amount,
                             !.result = IF reveals THEN r.result ELSE "None",
                             !.tx = reveals /\ r.tx,
                             !.methods = message_handling(msg, CycleState(timings_ok))
                                           \o (IF reveals THEN <<"reveal">> ELSE <<>>)]
       /\ calls' = IF reveals THEN r.calls ELSE <<>>
       /\ audit' = IF reveals THEN r.audit ELSE <<>>
       /\ UNCHANGED <<ledger, bid_accepted, bid_amount, total_energy_bought,
                      total_energy_sold>>
       /\ UNCHANGED <<hubVars, phaseVars, agentVars>>

(* run(), lines 322-392: receive, handle the message (an incomplete bundle returns from
   run), reveal when the state derived at the start of the cycle is 2 and a bid is
   stored, sleep *)
RunReceive ==
    \E timings_ok \in BOOLEAN, msg \in MsgKinds :
        /\ ~ShouldClose(CycleState(timings_ok))
        /\ \E d \in (IF msg = "none" THEN {coord_receive_timeout} ELSE CoordRecvWaits) :
              IF msg # "incomplete" /\ RevealState(timings_ok, d) = 2 /\ bid_amount > 0
              THEN \E tx_ok, bal_ok \in BOOLEAN :
                      LET r == reveal(bid_amount, tx_ok, bal_ok)
                      IN IF r.result = "raised"
                         THEN \E err \in ErrorSleeps :
                                 RunReceiveStep(timings_ok, msg, d, TRUE, r, err)
                         ELSE RunReceiveStep(timings_ok, msg, d, TRUE, r, 0)
              ELSE RunReceiveStep(timings_ok, msg, d, FALSE, reveal(0, TRUE, TRUE), 0)

----------------------------------------------------------------------------
(* Dashboard agent: src/agents/gui.py *)

valid_strategies == <<"aggressive", "neutral", "conservative">>

(* The strings of the model; the n-th of them is the content of the JSON object
   JsonObj(3 + n) that json.dumps({"strategy": ...}) produces *)
StrategyStrings == <<"aggressive", "neutral", "conservative", "passive", "Neutral", "">>

(* The value data.get("strategy") yields: a Python value with its type *)
PyValue(type, text) == [type |-> type, text |-> text]
NoField == PyValue("NoneType", "")       \* the key is missing, or null
FieldValues ==
    {NoField, PyValue("int", "1"), PyValue("int", "0"), PyValue("list", "[neutral]")}
        \cup {PyValue("str", StrategyStrings[i]) : i \in DOMAIN StrategyStrings}

(* The requests POST /set_strategy may get: no body, a body that is not JSON, a JSON
   document that is no object, and a JSON object with or without a strategy field *)
WebRequests ==
    {[body |-> b, strategy |-> NoField] : b \in {"none", "not_json", "json_list", "json_null"}}
        \cup {[body |-> "json_dict", strategy |-> v] : v \in FieldValues}

Response(status, http) == [status |-> status, http |-> http]

NoRequest ==
    [handled |-> FALSE, request |-> [body |-> "none", strategy |-> NoField],
     before |-> "neutral", status |-> "none", http |-> 0]

(* Python truth value of new_strategy *)
truthy(v) ==
    CASE v.type = "str" -> v.text # ""
      [] v.type = "int" -> v.text # "0"
      [] v.type = "list" -> v.text # "[]"
      [] OTHER -> FALSE

IsValidStrategy_AnyString(new_strategy) ==
    truthy(new_strategy) /\ new_strategy.type = "str"

(* line 109: new_strategy and isinstance(new_strategy, str) and new_strategy in
   valid_strategies *)
IsValidStrategy(new_strategy) ==
    /\ truthy(new_strategy)
    /\ new_strategy.type = "str"
    /\ new_strategy.text \in Range(valid_strategies)

(* GUIAgentWebController.set_strategy: the strategy after the request and the
   response. A JSON document that is no object makes data.get raise AttributeError,
   which the last handler answers with status 500. *)
set_strategy(request, current) ==
    IF request.body = "none"
    THEN [current_strategy |-> current, response |-> Response("error", 400)]
    ELSE IF request.body = "not_json"
    THEN [current_strategy |-> current, response |-> Response("error", 400)]
    ELSE IF request.body # "json_dict"
    THEN [current_strategy |-> current, response |-> Response("error", 500)]
    ELSE IF IsValidStrategy(request.strategy)
    THEN [current_strategy |-> request.strategy.text, response |-> Response("ok", 200)]
    ELSE [current_strategy |-> current, response |-> Response("error", 400)]

(* json.dumps({"strategy": strategy_to_send}) and the value a reader finds in it *)
json_dumps_strategy(strategy_to_send) ==
    JsonObj(3 + (CHOOSE i \in DOMAIN StrategyStrings : StrategyStrings[i] = strategy_to_send))

strategy_of(body) == StrategyStrings[body.val - 3]

(* Inbound messages of one cycle of guiBehaviour: none within the timeout, one from a
   sender that is not house@, and from house@ a body that is not JSON, a JSON object
   without a "house" dictionary, and one with a "house" dictionary holding both
   readings *)
GuiMsgKinds == {"none", "other_sender", "not_json", "no_house_dict", "house_reading"}

(* The store_data calls of lines 148-158 *)
gui_store(msg) ==
    IF msg = "house_reading"
    THEN << [table |-> "energy_production", value |-> "current_production"],
            [table |-> "energy_consumption", value |-> "current_demand"] >>
    ELSE <<>>

(* A request reaches POST /set_strategy *)
SetStrategy ==
    \E request \in WebRequests :
        LET r == set_strategy(request, current_strategy)
        IN /\ current_strategy' = r.current_strategy
           /\ web' = [handled |-> TRUE, request |-> request, before |-> current_strategy,
                      status |-> r.response.status, http |-> r.response.http]
           /\ UNCHANGED <<store_calls, busVars, hubVars, coordVars, phaseVars, pairVars, processVars>>

(* One cycle of guiBehaviour.run: receive and store the readings of a house message,
   send the current strategy to the Hub (a send that raises is caught), sleep *)
GuiRun ==
    /\ cycles["gui"] < MaxCycles
    /\ \E msg \in GuiMsgKinds, send_ok \in BOOLEAN :
          /\ store_calls' = gui_store(msg)
          /\ bus' = IF send_ok
                    THEN Append(bus, [sender |-> "gui",
                                      body |-> json_dumps_strategy(current_strategy)])
                    ELSE bus
    /\ cycles' = [cycles EXCEPT !["gui"] = @ + 1]
    /\ UNCHANGED <<current_strategy, web, mailbox, hubVars, coordVars, phaseVars, pairVars, processVars>>

----------------------------------------------------------------------------
(* Producers: src/agents/house.py, prediction.py, demandResponse.py *)

Agents == {"house", "prediction", "demandresponse", "gui"}

(* The JSON objects the producers build, by their number, and the keys each holds:
   1 the status of house.py (lines 16-39), 2 the forecast of prediction.py (lines
   147-150), 3 the response data of demandResponse.py (lines 269-278), and from 4 on
   the strategy objects of gui.py *)
HouseStatus == JsonObj(1)
Forecast == JsonObj(2)
ResponseData == JsonObj(3)

payload_keys(n) ==
    CASE n = 1 -> {"current_demand", "current_production", "appliances"}
      [] n = 2 -> {"predicted_demand", "predicted_production"}
      [] n = 3 -> {"predicted_demand", "predicted_supply", "market_value", "curtailment",
                   "energy_rate"}
      [] OTHER -> {"strategy"}

(* json.loads(msg.body).get(key) is a dictionary, and the keys it holds: only a
   Bundle of the Hub has entries under the names of roles *)
entry_keys(body, key) ==
    IF body.kind = "bundle"
    THEN IF key \in DOMAIN body.val
         THEN IF body.val[key].kind = "json_obj" THEN payload_keys(body.val[key].val)
              ELSE {}
         ELSE {}
    ELSE {}

(* PredictBehaviour.run, lines 95-151: what is sent for a received message. Only a
   message whose sender holds "house@" is read, and only a "house" entry with a
   "test_sample" leads to a forecast. *)
prediction_reply(msg) ==
    IF msg.sender # "house" THEN <<>>
    ELSE IF "test_sample" \in entry_keys(msg.body, "house")
    THEN <<[sender |-> "prediction", body |-> Forecast]>>
    ELSE <<>>

(* DRBehaviour.run, lines 182-281: only a message whose sender holds "grid@" is read,
   and only a "grid" entry with both samples leads to response data *)
dr_reply(msg) ==
    IF msg.sender # "grid" THEN <<>>
    ELSE IF {"test_sample_supply", "test_sample_demand"} \subseteq entry_keys(msg.body, "grid")
    THEN <<[sender |-> "demandresponse", body |-> ResponseData]>>
    ELSE <<>>

(* receive(): the oldest message of the mailbox is taken, if there is one *)
Received(agent) == IF mailbox[agent] = <<>> THEN <<>> ELSE <<Head(mailbox[agent])>>
AfterReceive(agent) ==
    IF mailbox[agent] = <<>> THEN mailbox ELSE [mailbox EXCEPT ![agent] = Tail(@)]

(* HouseStatus.run: sleep, receive (the message is not read), send the status *)
HouseRun ==
    /\ cycles["house"] < MaxCycles
    /\ mailbox' = AfterReceive("house")
    /\ bus' = Append(bus, [sender |-> "house", body |-> HouseStatus])
    /\ cycles' = [cycles EXCEPT !["house"] = @ + 1]
    /\ UNCHANGED <<guiVars, hubVars, coordVars, phaseVars, pairVars, processVars>>

(* PredictBehaviour.run with the model loaded *)
PredictionRun ==
    /\ cycles["prediction"] < MaxCycles
    /\ mailbox' = AfterReceive("prediction")
    /\ bus' = IF Received("prediction") = <<>> THEN bus
              ELSE bus \o prediction_reply(Received("prediction")[1])
    /\ cycles' = [cycles EXCEPT !["prediction"] = @ + 1]
    /\ UNCHANGED <<guiVars, hubVars, coordVars, phaseVars, pairVars, processVars>>

(* DRBehaviour.run with the models and scalers loaded *)
DemandResponseRun ==
    /\ cycles["demandresponse"] < MaxCycles
    /\ mailbox' = AfterReceive("demandresponse")
    /\ bus' = IF Received("demandresponse") = <<>> THEN bus
              ELSE bus \o dr_reply(Received("demandresponse")[1])
    /\ cycles' = [cycles EXCEPT !["demandresponse"] = @ + 1]
    /\ UNCHANGED <<guiVars, hubVars, coordVars, phaseVars, pairVars, processVars>>

(* One pass of the Hub fed by the Bus: the messages it sends (line 115-116) reach the
   mailboxes of their targets *)
HubPass(m, d) ==
    /\ HubCycle(m, d, "nobody")
    /\ mailbox' = [c \in Roles |->
                     IF outbox'[c] # NoBundle
                     THEN Append(mailbox[c], [sender |-> "facilitating", body |-> outbox'[c]])
                     ELSE mailbox[c]]

BusReceive ==
    /\ bus # <<>>
    /\ bus' = Tail(bus)
    /\ \E d \in RecvWaits : HubPass(Head(bus), d)

BusTimeout ==
    /\ bus = <<>>
    /\ UNCHANGED bus
    /\ HubPass(NoMsg, receive_timeout)

----------------------------------------------------------------------------
(* Specifications *)

HubInit ==
    /\ hnow = 0
    /\ last_message = [r \in Roles |-> [time |-> 0, msg |-> None]]
    /\ last_dependency_check = Unset
    /\ evalTime = NoEval
    /\ outbox = [c \in Roles |-> NoBundle]
    /\ send_failed = "nobody"
    /\ ingested = [r \in Roles |-> Never]
    /\ ingests = [r \in Roles |-> 0]
    /\ nmsgs = 0

(* The Coordinator after __init__ and on_start *)
CoordStart ==
    /\ cnow = 0
    /\ bid_accepted = FALSE
    /\ bid_amount = 0
    /\ total_energy_bought = 0
    /\ total_energy_sold = 0
    /\ op = NoOp
    /\ calls = <<>>
    /\ audit = <<>>

(* The ledger holds no auction, or one that was started at time 0 *)
CoordInit == CoordStart /\ ledger \in {NoAuction} \cup NewAuction(0)

(* Time points of the phase function's inputs: 0 and the offsets of the documented
   scenario (start = t0+5, end = t0+65, reveal_end = t0+125) from an origin t0 *)
PhaseOffsets == {3, 5, 40, 65, 100, 125, 130}
PhaseTimes == {0} \cup {t0 + k : t0 \in 0..MaxT0, k \in PhaseOffsets}

----------------------------------------------------------------------------
(* Two Coordinators on one ledger *)

(* Each Coordinator runs with its own account *)
Coordinators == {Self, Other}

(* The shared ledger: open says an auction exists that has not been closed, timed
   that its timestamps are set and its reveal window is over *)
NoChain ==
    [round |-> 0, open |-> FALSE, timed |-> FALSE,
     winner |-> ZERO_ADDRESS, seller |-> Other, energy |-> 1, price |-> 0]

(* What is remembered of a Coordinator's last closeAuction *)
NoClose ==
    [invoked |-> FALSE, tx |-> FALSE, closed |-> "none",
     bought_before |-> 0, sold_before |-> 0, audit |-> <<>>]

(* A Coordinator after construction: both totals 0; own_tx, lost and recorded are
   about the auction now on the ledger *)
NewBook ==
    [bought |-> 0, sold |-> 0,
     own_tx |-> FALSE,       \* its own closeAuction transaction went through
     lost |-> FALSE,         \* ... and a read-back after it failed
     recorded |-> {},        \* the outcome types it has logged with status Success
     last |-> NoClose]

ledger_accepts_close_Repeatedly(ch) == ch.timed

(* The ledger accepts closeAuction while the auction exists, and the auction exists
   from startAuction to closeAuction *)
ledger_accepts_close(ch) == ch.open

(* The outcome types an invocation logged with status Success *)
SuccessTypes(entries) ==
    {entries[i].event_type : i \in {j \in DOMAIN entries :
        entries[j].status = "Success" /\ entries[j].event_type \in
          {"Auction Buy", "Auction Sell", "Auction End (Lost)", "Auction End (No Winner)"}}}

(* An auction is started on the shared ledger and reaches the end of its reveal
   window with the result the getters will report *)
ChainAuction ==
    /\ ~chain.open
    /\ chain.round < MaxRounds
    /\ \E winner \in Winners, seller \in Sellers, energy \in Energies, price \in Prices :
          chain' = [round |-> chain.round + 1, open |-> TRUE, timed |-> TRUE,
                    winner |-> winner, seller |-> seller, energy |-> energy,
                    price |-> price]
    /\ books' = [c \in Coordinators |->
                    [books[c] EXCEPT !.own_tx = FALSE, !.lost = FALSE, !.recorded = {},
                                     !.last = NoClose]]
    /\ UNCHANGED <<hubVars, coordVars, phaseVars, guiVars, busVars, processVars>>

(* run(), line 320, of the Coordinator with account c: the derived state is 3 and
   closeAuction is invoked. The transaction goes through only if the ledger accepts
   it; keep says whether the ledger leaves its timestamps set afterwards. *)
PairRunClose(c) ==
    /\ chain.timed
    /\ \E fail_at \in FailPoints, bal_ok \in BOOLEAN, keep \in BOOLEAN :
          /\ fail_at # "tx" => ledger_accepts_close(chain)
          /\ LET r == closeAuction_by(c, fail_at, bal_ok, chain.winner, chain.seller,
                                      chain.energy, chain.price)
             IN /\ books[c].bought + r.bought <= MaxTotal
                /\ books[c].sold + r.sold <= MaxTotal
                /\ books' = [books EXCEPT ![c] =
                       [bought |-> books[c].bought + r.bought,
                        sold |-> books[c].sold + r.sold,
                        own_tx |-> books[c].own_tx \/ r.tx,
                        lost |-> books[c].lost \/ (r.tx /\ r.closed = "failed"),
                        recorded |-> books[c].recorded \cup SuccessTypes(r.audit),
                        last |-> [invoked |-> TRUE, tx |-> r.tx, closed |-> r.closed,
                                  bought_before |-> books[c].bought,
                                  sold_before |-> books[c].sold,
                                  audit |-> r.audit]]]
                /\ chain' = IF r.tx THEN [chain EXCEPT !.open = FALSE, !.timed = keep]
                            ELSE chain
    /\ UNCHANGED <<hubVars, coordVars, phaseVars, guiVars, busVars, processVars>>

(* The agents after __init__, and a Bus that holds no message *)
AgentStart ==
    /\ current_strategy = "neutral"
    /\ web = NoRequest
    /\ store_calls = <<>>
    /\ bus = <<>>
    /\ mailbox = [r \in Roles |-> <<>>]
    /\ cycles = [a \in Agents |-> 0]
    /\ chain = NoChain
    /\ books = [c \in Coordinators |-> NewBook]
    /\ dropped = NoDrop

PhaseIdle ==
    /\ phaseIn = [now |-> 0, start |-> 0, end |-> 0, reveal_end |-> 0]
    /\ phaseOut = NoValue
    /\ phasePrev = NoValue

PhaseInit ==
    /\ phaseIn \in [now : PhaseTimes, start : PhaseTimes, end : PhaseTimes,
                    reveal_end : PhaseTimes]
    /\ phaseOut = NoValue
    /\ phasePrev = NoValue

(* current_auction_state is called at time phaseIn.now with the three timestamps *)
PhaseEval ==
    /\ phaseOut = NoValue
    /\ phaseOut' = {current_auction_state(phaseIn.now, phaseIn.start, phaseIn.end,
                                          phaseIn.reveal_end)}
    /\ UNCHANGED <<phaseIn, phasePrev, hubVars, coordVars, agentVars>>

(* Timestamps as the ledger sets them: none, or start <= end <= reveal_end *)
PhaseOrdered ==
    /\ phaseIn \in {p \in [now : PhaseTimes, start : PhaseTimes, end : PhaseTimes,
                             reveal_end : PhaseTimes] :
                       p.start <= p.end /\ p.end <= p.reveal_end}
    /\ phaseOut = NoValue
    /\ phasePrev = NoValue

(* Time advances while the timestamps stay, and current_auction_state is called again *)
PhaseLater ==
    /\ phaseOut # NoValue
    /\ \E t \in PhaseTimes :
          /\ t > phaseIn.now
          /\ phaseIn' = [phaseIn EXCEPT !.now = t]
          /\ phaseOut' = {current_auction_state(t, phaseIn.start, phaseIn.end,
                                                 phaseIn.reveal_end)}
    /\ phasePrev' = phaseOut
    /\ UNCHANGED <<hubVars, coordVars, agentVars>>

HubNext == HubReceive \/ HubTimeout

InitHub == HubInit /\ CoordStart /\ ledger = NoAuction /\ PhaseIdle /\ AgentStart

SpecHub == InitHub /\ [][HubNext]_vars

HubScriptNext == HubReceive \/ HubTimeout \/ ScriptReceive

SpecHubScript == InitHub /\ [][HubScriptNext]_vars

(* The Hub with every producer sending *)
DispatchNext == ProducerReceive \/ QuietTimeout

SpecDispatch == InitHub /\ [][DispatchNext]_vars

PhaseNext == PhaseEval

InitPhase == HubInit /\ CoordStart /\ ledger = NoAuction /\ PhaseInit /\ AgentStart

SpecPhase == InitPhase /\ [][PhaseNext]_vars

ClockNext == PhaseEval \/ PhaseLater

InitClock == HubInit /\ CoordStart /\ ledger = NoAuction /\ PhaseOrdered /\ AgentStart

SpecClock == InitClock /\ [][ClockNext]_vars

CoordNext ==
    \/ StartAuction
    \/ Bid
    \/ Reveal
    \/ RunDisconnected
    \/ RunClose
    \/ RunReceive

Init == HubInit /\ CoordInit /\ PhaseIdle /\ AgentStart

Next == CoordNext

Spec == Init /\ [][Next]_vars

(* The Coordinator with restarts of its process *)
RestartNext == Bid \/ Reveal \/ RunReceive \/ RunClose \/ Restart

SpecRestart == Init /\ [][RestartNext]_vars

(* The behaviour as the agent schedules it: run() is called again and again
   (CyclicBehaviour), and a cycle that can close is not put off for ever *)
RunNext ==
    \/ RunDisconnected
    \/ RunClose
    \/ RunReceive

SpecRun == Init /\ [][RunNext]_vars /\ WF_vars(RunClose)

(* The dashboard agent alone: requests to its web endpoint and cycles of its behaviour *)
GuiNext == SetStrategy \/ GuiRun

InitAgents == HubInit /\ CoordStart /\ ledger = NoAuction /\ PhaseIdle /\ AgentStart

SpecGui == InitAgents /\ [][GuiNext]_vars

(* Two Coordinators closing auctions on one ledger *)
PairNext == ChainAuction \/ \E c \in Coordinators : PairRunClose(c)

SpecPair == InitAgents /\ [][PairNext]_vars

(* The four producers and the Hub on the Bus. Every behaviour is cyclic and runs
   again and again, and the Bus delivers: each of them gets its turn. *)
FlowNext ==
    \/ HouseRun
    \/ GuiRun
    \/ PredictionRun
    \/ DemandResponseRun
    \/ BusReceive
    \/ BusTimeout

SpecFlow ==
    /\ InitAgents
    /\ [][FlowNext]_vars
    /\ WF_vars(HouseRun) /\ WF_vars(GuiRun) /\ WF_vars(PredictionRun)
    /\ WF_vars(DemandResponseRun) /\ WF_vars(BusReceive) /\ WF_vars(BusTimeout)

----------------------------------------------------------------------------
(* Hub properties *)

Deps(c) == Range(dependencies[c])

(* C1: all-or-nothing dispatch. A Bundle is in the outbox of a consumer only if the
   cycle evaluated and, at the evaluation time, every dependency of the consumer had a
   stored payload of age <= 30 s; the Bundle then has an entry for every dependency.
   Hence one absent or stale dependency means nothing is sent to that consumer. *)
C1_AllOrNothing ==
    \A c \in Roles :
        outbox[c] # NoBundle =>
            /\ evalTime # NoEval
            /\ DOMAIN outbox[c].val = Deps(c)
            /\ \A d \in Deps(c) :
                  /\ last_message[d].msg # None
                  /\ evalTime - last_message[d].time <= 30

(* C1 witness: one evaluation sends a Bundle to prediction (house fresh) and nothing to
   behavioralsegmentation, whose dependency demandresponse is present but stale. *)
C1_Witness ==
    /\ evalTime # NoEval
    /\ outbox["prediction"] # NoBundle
    /\ outbox["behavioralsegmentation"] = NoBundle
    /\ last_message["demandresponse"].msg # None
    /\ evalTime - last_message["demandresponse"].time > 30
    /\ evalTime - last_message["house"].time <= 30

(* The content a message body carries, as the sender wrote it *)
Content(body) ==
    CASE body.kind = "json_obj" -> PyDict(body.val)
      [] body.kind = "text" -> PyStr(body.val)
      [] OTHER -> None

(* C2: latest-value visibility. Every entry of a dispatched Bundle decodes to the
   content of the most recent message ingested for that role, never to an older one. *)
C2_LatestValue ==
    \A c \in Roles :
        outbox[c] # NoBundle =>
            \A d \in Deps(c) :
                /\ ingested[d] # Never
                /\ d \in DOMAIN outbox[c].val
                /\ json_loads(outbox[c].val[d]).value = Content(ingested[d])

(* C2 witness: house was ingested twice and the Bundle for prediction carries the
   second payload. *)
C2_Witness ==
    /\ ingests["house"] = 2
    /\ outbox["prediction"] # NoBundle
    /\ json_loads(outbox["prediction"].val["house"]).value = PyDict(2)

----------------------------------------------------------------------------
(* Coordinator properties *)

PRE_BIDDING == 0
BIDDING == 1
REVEAL == 2
CLOSEABLE == 3

(* The phase function as documented *)
PhaseRef(now, start, end, reveal_end) ==
    IF start = 0 THEN -1
    ELSE IF now < start THEN PRE_BIDDING
    ELSE IF now < end THEN BIDDING
    ELSE IF now <= reveal_end THEN REVEAL
    ELSE CLOSEABLE

(* C3: the phase function matches its reference for every (now, start, end,
   reveal_end): whenever current_auction_state has been applied to the inputs, its
   result is the documented phase; with start = t0+5, end = t0+65, reveal_end = t0+125
   that is PRE_BIDDING at t0+3, BIDDING at t0+40, REVEAL at t0+65, t0+100 and t0+125,
   and CLOSEABLE at t0+130. *)
C3_PhaseMatchesReference ==
    phaseOut # NoValue =>
        /\ phaseOut = {PhaseRef(phaseIn.now, phaseIn.start, phaseIn.end, phaseIn.reveal_end)}
        /\ \A t0 \in 0..MaxT0 :
              (phaseIn.start = t0 + 5 /\ phaseIn.end = t0 + 65
                   /\ phaseIn.reveal_end = t0 + 125) =>
                  /\ phaseIn.now = t0 + 3 => phaseOut = {PRE_BIDDING}
                  /\ phaseIn.now = t0 + 40 => phaseOut = {BIDDING}
                  /\ phaseIn.now \in {t0 + 65, t0 + 100, t0 + 125} => phaseOut = {REVEAL}
                  /\ phaseIn.now = t0 + 130 => phaseOut = {CLOSEABLE}

(* C3 witness: the scenario's auction evaluated exactly at reveal_end gives REVEAL. *)
C3_Witness ==
    /\ phaseIn = [now |-> 125, start |-> 5, end |-> 65, reveal_end |-> 125]
    /\ phaseOut = {REVEAL}

StartRejected == op.result = "False" /\ calls = <<>>

(* C4 as stated: startAuction invoked while the phase derived from the timings it read
   is anything other than NONE returns false and makes no ledger call. *)
C4_Original ==
    (op.name = "start_auction" /\ op.phase # {-1}) => StartRejected

(* C4 as amended: startAuction invoked while the timings it read show an auction whose
   reveal window has not ended (start # 0 and now < reveal_end, i.e. PRE_BIDDING,
   BIDDING, or REVEAL before reveal_end) returns false and makes no ledger call. *)
C4_RejectedBeforeRevealEnd ==
    (op.name = "start_auction" /\ op.timings.biddingStart # 0
        /\ op.at < op.timings.revealEnd) => StartRejected

(* C4 witness: a positive amount is offered during REVEAL, before reveal_end, and is
   rejected. *)
C4_Witness ==
    /\ op.name = "start_auction"
    /\ op.phase = {REVEAL}
    /\ op.at < op.timings.revealEnd
    /\ op.amount >= 2
    /\ StartRejected

Invoked(method) == \E i \in DOMAIN op.methods : op.methods[i] = method

(* C5: after every closeAuction invocation the stored bid is empty (bid_amount = 0),
   whether the close transaction succeeded, failed, or a read-back failed after it. *)
C5_CloseClearsBid ==
    Invoked("closeAuction") => bid_amount = 0

(* C5 witness: a bid was stored, the close transaction went through, a read-back
   failed, and the stored bid is empty. *)
C5_Witness ==
    /\ Invoked("closeAuction")
    /\ op.bid_before > 0
    /\ op.tx
    /\ op.closed = "failed"
    /\ bid_amount = 0

(* C6: the totals change only inside a closeAuction whose close transaction succeeded:
   no step of startAuction, bid, reveal or of a cycle that does not close changes
   total_energy_bought or total_energy_sold. *)
C6_TotalsChangeOnlyOnClose ==
    [][(total_energy_bought' # total_energy_bought
            \/ total_energy_sold' # total_energy_sold)
         => (op'.methods = <<"closeAuction">> /\ op'.tx)]_vars

(* C6 witness: after a Buy was credited, a bid whose transaction failed left the
   totals in place. *)
C6_Witness ==
    /\ op.name = "bid"
    /\ ~op.tx
    /\ total_energy_bought > 0

OutcomeTypes ==
    {"Auction Buy", "Auction Sell", "Auction End (Lost)", "Auction End (No Winner)"}

(* The entries of the last operation that record an auction outcome *)
OutcomeEntries ==
    {i \in DOMAIN audit : audit[i].event_type \in OutcomeTypes /\ audit[i].status = "Success"}

(* The entries of the last operation that are no balance snapshot *)
EventEntries ==
    {i \in DOMAIN audit : audit[i].event_type \notin
        {"Balance Post-Close", "Balance Post-CloseFail"}}

(* C7: outcome classification is exhaustive and mutually exclusive: a successful
   closeAuction records exactly one entry, and it is one of Buy, Sell, Lost, NoWinner,
   for every winner in {self, other, zero} and seller in {self, other}. *)
C7_ExactlyOneOutcome ==
    op.closed = "ok" =>
        /\ Cardinality(EventEntries) = 1
        /\ EventEntries = OutcomeEntries

(* C7 witness: the close read back winner = seller = self and one outcome was
   recorded. *)
C7_Witness ==
    /\ op.closed = "ok"
    /\ op.winner = Self
    /\ op.seller = Self
    /\ Cardinality(OutcomeEntries) = 1

Recorded(event_type) ==
    \E i \in DOMAIN audit : audit[i].event_type = event_type /\ audit[i].status = "Success"

(* C8: a successful closeAuction with winner = self and seller # self records Buy,
   adds exactly the ledger's energy amount to total_energy_bought and leaves
   total_energy_sold unchanged. *)
C8_Buy ==
    [][(op'.closed = "ok" /\ op'.winner = Self /\ op'.seller # Self)
         => /\ Recorded("Auction Buy")'
            /\ total_energy_bought' = total_energy_bought + op'.energy
            /\ total_energy_sold' = total_energy_sold]_vars

(* C8 witness: a close with winner = self, seller = other and 2 units of energy. *)
C8_Witness ==
    /\ op.closed = "ok"
    /\ op.winner = Self
    /\ op.seller = Other
    /\ op.energy = 2
    /\ total_energy_bought >= 2

(* C9: a successful closeAuction with winner neither self nor the zero address and
   seller = self records Sell, adds exactly the ledger's energy amount to
   total_energy_sold and leaves total_energy_bought unchanged. *)
C9_Sell ==
    [][(op'.closed = "ok" /\ op'.winner \notin {Self, ZERO_ADDRESS} /\ op'.seller = Self)
         => /\ Recorded("Auction Sell")'
            /\ total_energy_sold' = total_energy_sold + op'.energy
            /\ total_energy_bought' = total_energy_bought]_vars

(* C9 witness: a close with winner = other, seller = self and 2 units of energy. *)
C9_Witness ==
    /\ op.closed = "ok"
    /\ op.winner = Other
    /\ op.seller = Self
    /\ op.energy = 2
    /\ total_energy_sold >= 2

(* C10: a successful closeAuction with winner = zero address records NoWinner with no
   price and changes neither total, whoever the seller is. *)
C10_NoWinner ==
    [][(op'.closed = "ok" /\ op'.winner = ZERO_ADDRESS)
         => /\ Recorded("Auction End (No Winner)")'
            /\ \A i \in OutcomeEntries' : audit'[i].price = NoValue
            /\ total_energy_bought' = total_energy_bought
            /\ total_energy_sold' = total_energy_sold]_vars

(* C10 witness: a close with winner = zero address and seller = self, recorded without
   a price. *)
C10_Witness ==
    /\ op.closed = "ok"
    /\ op.winner = ZERO_ADDRESS
    /\ op.seller = Self
    /\ \E i \in OutcomeEntries : audit[i].price = NoValue

(* C11 as stated: a successful closeAuction with winner # self and seller # self records
   Lost and changes neither total. *)
C11_Original ==
    [][(op'.closed = "ok" /\ op'.winner # Self /\ op'.seller # Self)
         => /\ Recorded("Auction End (Lost)")'
            /\ total_energy_bought' = total_energy_bought
            /\ total_energy_sold' = total_energy_sold]_vars

(* C11 as amended: a successful closeAuction with winner neither self nor the zero
   address and seller # self records Lost and changes neither total. *)
C11_Lost ==
    [][(op'.closed = "ok" /\ op'.winner \notin {Self, ZERO_ADDRESS} /\ op'.seller # Self)
         => /\ Recorded("Auction End (Lost)")'
            /\ total_energy_bought' = total_energy_bought
            /\ total_energy_sold' = total_energy_sold]_vars

(* C11 witness: a close with winner = other and seller = other, recorded as Lost with
   the winner as counterparty. *)
C11_Witness ==
    /\ op.closed = "ok"
    /\ op.winner = Other
    /\ op.seller = Other
    /\ \E i \in OutcomeEntries :
          audit[i].event_type = "Auction End (Lost)" /\ audit[i].counterparty = Other

(* The ledger's timings put the auction past its reveal end *)
Closeable ==
    current_auction_state(cnow, ledger.biddingStart, ledger.biddingEnd, ledger.revealEnd)
        = CLOSEABLE

(* The model's clock leaves room for one more closing cycle *)
ClockAllowsClose == cnow + close_sleep <= MaxCoordTime

(* C12: close is always attempted. Every cycle that runs connected and derives
   CLOSEABLE invokes closeAuction, whatever message is waiting; and an auction that is
   CLOSEABLE is eventually attempted to be closed, again after a failed attempt, for as
   long as it stays CLOSEABLE. *)
C12_CloseAlwaysAttempted ==
    /\ [](  (op.name = "run" /\ op.msg # "disconnected" /\ op.phase = {CLOSEABLE})
           => Invoked("closeAuction"))
    /\ [](  (op.name = "run" /\ Invoked("closeAuction") /\ ~op.tx)
           => (ledger = op.timings /\ Closeable))
    /\ (Closeable /\ ClockAllowsClose)
          ~> (Invoked("closeAuction") \/ ~Closeable \/ ~ClockAllowsClose)

(* C12 witness: a close was attempted, its transaction failed, and the auction is still
   CLOSEABLE with a next cycle to come. *)
C12_Witness ==
    /\ Invoked("closeAuction")
    /\ ~op.tx
    /\ op.closed = "failed"
    /\ Closeable
    /\ ClockAllowsClose

(* C13: opportunistic reveal. Every cycle that runs connected, derives REVEAL and finds
   a stored bid (bid_amount > 0) invokes reveal, whether the receive timed out, a valid
   bundle arrived, or a malformed or incomplete one. *)
C13_Original ==
    (op.name = "run" /\ op.msg # "disconnected" /\ op.phase = {REVEAL}
        /\ op.bid_before > 0) => Invoked("reveal")

(* C14: deficit policy. A cycle that receives a valid bundle with production - demand
   below -0.1 places a bid when its phase is BIDDING (bid is invoked and bid_amount is
   written), and reveals the stored bid when its phase is REVEAL. *)
C14_Original ==
    (op.name = "run" /\ op.msg = "deficit") =>
        /\ op.phase = {BIDDING} => (Invoked("bid") /\ bid_amount > 0)
        /\ (op.phase = {REVEAL} /\ op.bid_before > 0) => Invoked("reveal")

(* C15: surplus policy. A cycle that receives a valid bundle with production - demand
   above 0.1 and derives no auction (state -1) invokes start_auction. *)
C15_Original ==
    (op.name = "run" /\ op.msg = "surplus" /\ op.phase = {-1}) => Invoked("start_auction")

(* The last operation submitted a ledger transaction and the transaction failed *)
TransactionFailed == calls # <<>> /\ ~op.tx

(* C16: every failed ledger call of start_auction, bid, reveal and closeAuction is
   caught inside the operation: an entry with status Failed is logged and the operation
   returns normally (start_auction returning False), also when the balance cannot be
   read either. *)
C16_Original ==
    TransactionFailed =>
        /\ op.result # "raised"
        /\ \E i \in DOMAIN audit : audit[i].status = "Failed"
        /\ Invoked("start_auction") => op.result = "False"

(* The consumers that depend on a role *)
Consumers(r) == {c \in Roles : r \in Deps(c)}

(* C17: presence is defined by receipt. Once a message from a registered role has been
   ingested, whatever its body, the role is not unresolved for any consumer at an
   evaluation made within 30 s of the time stored for it. *)
C17_Original ==
    \A r \in Roles :
        (ingested[r] # Never /\ evalTime # NoEval /\ evalTime - last_message[r].time <= 30)
            => \A c \in Consumers(r) : r \notin unresolved_dependencies(c, last_message, evalTime)

(* Every dependency of the consumer is stored and at most 30 s old at time t *)
AllFresh(c, t) ==
    \A d \in Deps(c) : last_message[d].msg # None /\ t - last_message[d].time <= 30

(* C18: repeated dispatch. At every evaluation at which all dependencies of a consumer
   are present and fresh and its send does not fail, a Bundle with exactly one entry
   per dependency is sent to it, changed cache or not; after house at t = 0, prediction
   at t = 2, demandresponse at t = 3, gui at t = 5, each with a payload (a JSON object
   or a text), the evaluation at t = 6 sends negotiation a Bundle with the four
   payloads. *)
C18_RepeatedDispatch ==
    /\ \A c \in Roles :
          (evalTime # NoEval /\ Deps(c) # {} /\ AllFresh(c, evalTime) /\ send_failed # c)
             => /\ outbox[c] # NoBundle
                /\ DOMAIN outbox[c].val = Deps(c)
    /\ (ScriptPrefix(5) /\ evalTime = 6
           /\ \A d \in Deps("negotiation") : ingested[d].kind \in {"json_obj", "text"})
          => /\ outbox["negotiation"] # NoBundle
             /\ \A d \in Deps("negotiation") :
                   json_loads(outbox["negotiation"].val[d]).value = Content(ingested[d])

(* C18 witness: the scenario's messages were received, nothing has arrived since, and
   the evaluation at t = 12 sends negotiation the same four payloads again. *)
C18_Witness ==
    /\ ScriptPrefix(5)
    /\ evalTime = 12
    /\ outbox["negotiation"] # NoBundle
    /\ DOMAIN outbox["negotiation"].val = {"house", "prediction", "demandresponse", "gui"}
    /\ json_loads(outbox["negotiation"].val["gui"]).value = PyDict(4)

(* A step in which the Hub received a message from a sender that is no registered role *)
UnregisteredReceived == nmsgs' = nmsgs + 1 /\ ingests' = ingests

(* C19: a message from an unregistered role changes no payload and no timestamp of the
   Status Cache, and the cycle goes on: it evaluates if the evaluation is due and ends
   with its sleep. *)
C19_UnregisteredIgnored ==
    [][UnregisteredReceived =>
          LET t == hnow' - loop_sleep IN
          /\ last_message' = last_message
          /\ ingested' = ingested
          /\ t >= hnow
          /\ evalTime' = IF last_dependency_check = Unset \/ t - last_dependency_check > 5
                         THEN t ELSE NoEval
          /\ evalTime' # NoEval =>
                \A c \in Roles : (Deps(c) # {} /\ AllFresh(c, t) /\ send_failed' # c)
                                     => outbox'[c] # NoBundle]_vars

(* C19 witness: the fifth message of the scenario comes from an unregistered sender at
   t = 6; the four stored records are as they were and the cycle's evaluation sends
   negotiation its Bundle. *)
C19_Witness ==
    /\ ScriptPrefix(5)
    /\ evalTime = 6
    /\ hnow = 7
    /\ \A r \in Deps("negotiation") : last_message[r].msg = Content(ingested[r])
    /\ outbox["negotiation"] # NoBundle

(* C20: dispatch isolation. When the send to one consumer fails in an evaluation, every
   other consumer whose dependencies are all present and fresh still gets its Bundle in
   that evaluation, and the Status Cache holds what it held after the cycle's store:
   the record of a role that sent nothing in the cycle is unchanged. *)
C20_DispatchIsolation ==
    [][send_failed' # "nobody" =>
          /\ evalTime' # NoEval
          /\ outbox'[send_failed'] = NoBundle
          /\ \A c \in Roles \ {send_failed'} :
                (Deps(c) # {} /\ \A d \in Deps(c) :
                                    /\ last_message'[d].msg # None
                                    /\ evalTime' - last_message'[d].time <= 30)
                    => (outbox'[c] # NoBundle /\ DOMAIN outbox'[c].val = Deps(c))
          /\ \A r \in Roles :
                IF ingests'[r] = ingests[r] THEN last_message'[r] = last_message[r]
                ELSE last_message'[r] = [time |-> evalTime', msg |-> StoredMsg(ingested'[r])]
      ]_vars

(* C20 witness: in one evaluation the send to prediction failed and
   behavioralsegmentation got its Bundle. *)
C20_Witness ==
    /\ send_failed = "prediction"
    /\ AllFresh("prediction", evalTime)
    /\ outbox["prediction"] = NoBundle
    /\ outbox["behavioralsegmentation"] # NoBundle

(* C21: total_energy_bought and total_energy_sold start at 0 and no step of any
   operation, whatever the ledger answers, makes either of them smaller. *)
C21_TotalsMonotone ==
    /\ total_energy_bought = 0
    /\ total_energy_sold = 0
    /\ [][/\ total_energy_bought' >= total_energy_bought
          /\ total_energy_sold' >= total_energy_sold]_vars

(* C21 witness: after a sale was credited a new auction was started, and the totals
   stand as the close left them. *)
C21_Witness ==
    /\ op.name = "start_auction"
    /\ op.tx
    /\ total_energy_sold > 0
    /\ total_energy_bought = 0

(* C22: reveal with no stored bid (bid_amount <= 0) is a no-op: it submits nothing to
   the ledger, logs nothing, and leaves the stored bid, the totals and the ledger as
   they are. *)
C22_RevealNoBidNoOp ==
    [][(op'.name = "reveal" /\ bid_amount <= 0)
         => /\ calls' = <<>>
            /\ audit' = <<>>
            /\ op'.result = "None"
            /\ UNCHANGED <<bid_amount, total_energy_bought, total_energy_sold, ledger>>]_vars

(* C22 witness: a reveal invoked with no stored bid did nothing. *)
C22_Witness ==
    /\ op.name = "reveal"
    /\ op.bid_before = 0
    /\ bid_amount = 0
    /\ calls = <<>>
    /\ audit = <<>>

(* The unit counts the last operation submitted to the ledger's startAuction *)
SubmittedUnits == {calls[i].args[1] : i \in {j \in DOMAIN calls : calls[j].fn = "startAuction"}}

(* C23: start_auction with an amount of zero or less returns False and submits nothing,
   and no start_auction ever submits a unit count below 1. *)
C23_NonPositiveRejected ==
    op.name = "start_auction" =>
        /\ op.amount <= 0 => StartRejected
        /\ \A u \in SubmittedUnits : u >= 1

(* C23 witness: start_auction was offered -0.5 units with no auction on the ledger and
   returned False without a ledger call. *)
C23_Witness ==
    /\ op.name = "start_auction"
    /\ op.amount = -1
    /\ op.phase = {-1}
    /\ StartRejected

(* C24 as stated: every unit count submitted is within 1/2 of the amount offered
   (amounts in half units: |2 * units - amount| <= 1), and every amount above zero
   offered while no auction is derived is submitted. *)
C24_Original ==
    op.name = "start_auction" =>
        /\ \A u \in SubmittedUnits : 2 * u - op.amount \in -1..1
        /\ (op.amount > 0 /\ op.phase = {-1}) => SubmittedUnits # {}

(* C24 as amended: every unit count submitted is within 1/2 of the amount offered, and
   every amount above 1/2 offered while no auction is derived is submitted; an amount
   of exactly 1/2 rounds to 0 and is rejected. *)
C24_NearestUnit ==
    op.name = "start_auction" =>
        /\ \A u \in SubmittedUnits : 2 * u - op.amount \in -1..1
        /\ (op.amount > 1 /\ op.phase = {-1}) => SubmittedUnits # {}
        /\ op.amount = 1 => StartRejected

(* C24 witness: 1.5 units offered with no auction on the ledger, 2 units submitted. *)
C24_Witness ==
    /\ op.name = "start_auction"
    /\ op.amount = 3
    /\ op.phase = {-1}
    /\ SubmittedUnits = {2}

(* The last cycle received a bundle that is not JSON or lacks a required entry or key *)
Malformed == {"not_json", "incomplete"}

(* C25: a cycle that receives a malformed or incomplete bundle leaves bid_amount and
   the totals unchanged, invokes neither start_auction nor bid and submits neither
   startAuction nor bid to the ledger, and ends as a cycle does: an incomplete bundle
   returns at once, any other malformed one goes on to the cycle's final sleep. *)
C25_MalformedBundleIgnored ==
    [][(op'.name = "run" /\ op'.msg \in Malformed)
         => /\ UNCHANGED <<bid_amount, total_energy_bought, total_energy_sold, ledger>>
            /\ ~Invoked("start_auction")' /\ ~Invoked("bid")'
            /\ \A i \in DOMAIN calls' : calls'[i].fn \notin {"startAuction", "bid"}
            /\ IF op'.msg = "incomplete" THEN cnow' = cnow
               ELSE cnow' >= cnow + cycle_sleep]_vars

(* C25 witness: with a bid stored, a cycle in the bidding window received a bundle
   that is not JSON; the bid is as it was. *)
C25_Witness ==
    /\ op.name = "run"
    /\ op.msg = "not_json"
    /\ op.phase = {BIDDING}
    /\ op.bid_before > 0
    /\ bid_amount = op.bid_before

(* C26: phase derivation is history-independent. The phase an operation derived is a
   function of the time and of the three timestamps it read, whatever the local
   history: a stored bid and non-zero totals give the same phase as a fresh start. *)
C26_PhaseHistoryIndependent ==
    op.phase # NoValue =>
        op.phase = {PhaseRef(op.at, op.timings.biddingStart, op.timings.biddingEnd,
                             op.timings.revealEnd)}

(* C26 witness: a cycle that started with a stored bid and a non-zero total derived its
   phase from the timings it read. *)
C26_Witness ==
    /\ op.name = "run"
    /\ op.bid_before > 0
    /\ total_energy_bought + total_energy_sold > 0
    /\ op.phase = {current_auction_state(op.at, op.timings.biddingStart,
                                         op.timings.biddingEnd, op.timings.revealEnd)}

(* A set_strategy request whose body is a JSON object with one of the three strategy
   names as the value of "strategy" *)
ValidRequest(request) ==
    /\ request.body = "json_dict"
    /\ request.strategy \in {PyValue("str", "aggressive"), PyValue("str", "neutral"),
                             PyValue("str", "conservative")}

StrategyMessages == {i \in DOMAIN bus : bus[i].sender = "gui"}

(* C27: the dashboard agent's strategy is always aggressive, neutral or conservative:
   it is neutral until a request is handled, a valid set_strategy request replaces it
   and is answered ok, every other request is answered with an error status and leaves
   it as it was, and every strategy message sent to the Hub carries one of the three *)
C27_StrategyAlwaysValid ==
    /\ current_strategy \in {"aggressive", "neutral", "conservative"}
    /\ ~web.handled => current_strategy = "neutral"
    /\ (web.handled /\ ValidRequest(web.request))
         => /\ current_strategy = web.request.strategy.text
            /\ web.status = "ok"
    /\ (web.handled /\ ~ValidRequest(web.request))
         => /\ current_strategy = web.before
            /\ web.status = "error"
            /\ web.http >= 400
    /\ \A i \in StrategyMessages :
          /\ bus[i].body.kind = "json_obj"
          /\ strategy_of(bus[i].body) \in {"aggressive", "neutral", "conservative"}

(* The strategy was replaced by a valid request and sent to the Hub, and a later
   request with a string outside the set was refused and changed nothing *)
C27_Witness ==
    /\ web.handled
    /\ web.request.body = "json_dict"
    /\ web.request.strategy = PyValue("str", "passive")
    /\ web.status = "error"
    /\ web.before = "conservative"
    /\ current_strategy = "conservative"
    /\ \E i \in StrategyMessages : strategy_of(bus[i].body) = "conservative"
    /\ \E i \in StrategyMessages : strategy_of(bus[i].body) = "neutral"

(* What the transaction of a bid shows to every participant of the ledger: the
   argument of the call (the sealed bid) and the value attached to it *)
Exposed(call) == [sealed_bid |-> call.args[1], value |-> call.args[2]]

(* C28: bid secrecy before reveal: what a bid submission exposes (the sealed bid and
   the attached value) is the same for any two bid prices *)
C28_Original ==
    (op.name = "bid" /\ calls # <<>>) =>
        \A price_wei \in Prices :
            Exposed(bid(price_wei, op.tx, TRUE).calls[1]) = Exposed(calls[1])

(* The messages waiting for the Coordinator that are a Bundle of all four payloads *)
FullBundles ==
    {i \in DOMAIN mailbox["negotiation"] :
        DOMAIN mailbox["negotiation"][i].body.val
            = {"house", "prediction", "demandresponse", "gui"}}

(* C29: with the house, prediction, demandresponse and gui agents and the Hub running
   and the Bus delivering every message, the negotiation consumer eventually gets a
   Bundle holding the house, prediction, demandresponse and gui payloads *)
C29_Original == <>(FullBundles # {})

(* C30: bid stores the price before the ledger call and a failed call leaves it
   stored; a later cycle of the run loop that derives state 2 (and does not return
   on an incomplete bundle) submits reveal(price, nonce) whenever a bid is stored,
   whether or not the ledger accepted the sealed bid *)
C30_FailedBidStaysStored ==
    /\ op.name = "bid" => bid_amount = calls[1].args[2]
    /\ (op.name = "run" /\ op.phase = {REVEAL} /\ op.bid_before > 0
           /\ op.msg \notin {"incomplete", "disconnected"})
         => calls = <<Call("reveal", <<op.bid_before, nonce>>)>>

(* A cycle submitted the reveal of a stored bid although the ledger never accepted a
   sealed bid of this Coordinator: every bid call so far failed *)
C30_Witness ==
    /\ op.name = "run"
    /\ calls = <<Call("reveal", <<bid_amount, nonce>>)>>
    /\ op.bid_before > 0
    /\ ~bid_accepted

(* The state current_auction_state gives for the timings the cycle read, at the time
   its receive returned *)
PhaseAfterReceive ==
    current_auction_state(op.at + op.waited, op.timings.biddingStart,
                          op.timings.biddingEnd, op.timings.revealEnd)

(* C31: the run loop derives the phase once, before the receive, and uses that value
   after it: a cycle submits reveal only if the phase derived at its start is REVEAL,
   and a cycle that started in REVEAL with a stored bid submits it even after the
   receive has waited its full timeout *)
C31_RevealUsesCycleStartPhase ==
    /\ (op.name = "run" /\ "reveal" \in Range(op.methods)) => op.phase = {REVEAL}
    /\ (op.name = "run" /\ op.phase = {REVEAL} /\ op.bid_before > 0 /\ op.msg = "none")
         => /\ op.waited = coord_receive_timeout
            /\ calls = <<Call("reveal", <<op.bid_before, nonce>>)>>

(* A reveal was submitted at a time after reveal_end, when the phase is CLOSEABLE *)
C31_Witness ==
    /\ op.name = "run"
    /\ calls = <<Call("reveal", <<op.bid_before, nonce>>)>>
    /\ op.timings.biddingStart # 0
    /\ op.at + op.waited > op.timings.revealEnd
    /\ PhaseAfterReceive = CLOSEABLE

TradeTypes == {"Auction Buy", "Auction Sell"}

(* C32: in every closeAuction invocation the Coordinator's totals change if and only
   if that invocation appends a Success entry of type Buy or Sell; when the close
   transaction went through and a later read-back or the balance read failed, a
   Failed entry is logged and the totals are unchanged; and the outcome of an auction
   lost that way is not recorded by any later cycle of that Coordinator. *)
C32_CloseAtomicWithAccount ==
    \A c \in Coordinators :
       LET b == books[c] IN
       /\ b.last.invoked =>
            /\ (b.bought # b.last.bought_before \/ b.sold # b.last.sold_before)
                 <=> (TradeTypes \cap SuccessTypes(b.last.audit) # {})
            /\ (b.last.tx /\ b.last.closed = "failed") =>
                 /\ \E i \in DOMAIN b.last.audit : b.last.audit[i].status = "Failed"
                 /\ b.bought = b.last.bought_before
                 /\ b.sold = b.last.sold_before
       /\ b.lost => b.recorded = {}

(* The winner's close went through, its read-back failed, and a later cycle whose
   close the ledger rejected has left its totals as they were *)
C32_Witness ==
    /\ chain.winner = Self
    /\ chain.seller = Other
    /\ books[Self].lost
    /\ books[Self].last.invoked
    /\ ~books[Self].last.tx
    /\ books[Self].bought = 0
    /\ books[Self].recorded = {}

(* C33: with two Coordinators on a ledger that accepts closeAuction once per auction,
   a Coordinator records Buy or Sell only if its own close transaction went through;
   the Coordinator whose close is rejected records no outcome and its totals stay,
   and at most one of the two gets its close through, so the seller's sold total and
   the winner's bought total do not both increase. *)
C33_OnlyOwnCloseRecords ==
    /\ \A c \in Coordinators :
          /\ (TradeTypes \cap books[c].recorded # {}) => books[c].own_tx
          /\ (books[c].last.invoked /\ ~books[c].last.tx) =>
                /\ SuccessTypes(books[c].last.audit) = {}
                /\ books[c].bought = books[c].last.bought_before
                /\ books[c].sold = books[c].last.sold_before
    /\ Cardinality({c \in Coordinators : books[c].own_tx}) <= 1

(* The winner closed the auction and recorded its Buy; the seller's close was rejected
   and its sold total is still 0 *)
C33_Witness ==
    /\ chain.round = 1
    /\ chain.winner = Self
    /\ chain.seller = Other
    /\ "Auction Buy" \in books[Self].recorded
    /\ books[Self].bought = chain.energy
    /\ books[Other].last.invoked
    /\ ~books[Other].last.tx
    /\ books[Other].recorded = {}
    /\ books[Other].sold = 0

(* The last operation was a reveal, invoked directly or by a cycle, whose transaction
   went through and was logged as a Success *)
RevealedOk ==
    /\ op.name = "reveal" \/ (op.name = "run" /\ Invoked("reveal"))
    /\ op.tx
    /\ Recorded("Reveal")

(* C34: reveal leaves the stored bid unchanged whether it succeeds or fails, and after a
   successful reveal every later cycle whose phase is REVEAL submits the same
   (price, nonce) again. *)
C34_Original ==
    [][/\ (op'.name = "reveal" \/ (op'.name = "run" /\ "reveal" \in Range(op'.methods)))
            => bid_amount' = bid_amount
       /\ (RevealedOk /\ op'.name = "run" /\ op'.phase = {REVEAL})
            => calls' = <<Call("reveal", <<bid_amount, nonce>>)>>]_vars

(* The state the ledger's own timestamps give at the time the last operation began *)
TruePhase ==
    current_auction_state(op.at, ledger.biddingStart, ledger.biddingEnd, ledger.revealEnd)

(* C35: when the timestamps cannot be read the timings are (0, 0, 0) and the state
   derived is -1 (NONE): a cycle that read them so invokes neither closeAuction nor
   reveal and submits nothing, whatever the ledger's true phase, and a start_auction
   that read them so passes the in-progress guard and, for an amount that rounds to at
   least one unit, submits startAuction. *)
C35_TimingFailureDerivesNone ==
    /\ (op.name = "run" /\ op.msg # "disconnected" /\ op.timings = NoAuction) =>
          /\ op.phase = {-1}
          /\ ~Invoked("closeAuction")
          /\ ~Invoked("reveal")
          /\ calls = <<>>
    /\ (op.name = "start_auction" /\ op.timings = NoAuction
           /\ ~AmountRejected(round_half_even(op.amount))) =>
          calls = <<Call("startAuction", <<round_half_even(op.amount)>>)>>

(* The timestamps could not be read in a cycle that began while the ledger's auction
   was in its reveal window and a bid was stored: nothing was revealed *)
C35_Witness ==
    /\ op.name = "run"
    /\ op.timings = NoAuction
    /\ ledger # NoAuction
    /\ TruePhase = REVEAL
    /\ bid_amount > 0
    /\ op.phase = {-1}
    /\ calls = <<>>

(* C36: for fixed timestamps with 0 < start <= end <= reveal_end the derived state
   never decreases as time advances, and once it is 3 (CLOSEABLE) it stays 3. *)
C36_PhaseNeverDecreases ==
    (phasePrev # NoValue /\ 0 < phaseIn.start /\ phaseIn.start <= phaseIn.end
        /\ phaseIn.end <= phaseIn.reveal_end) =>
       \A p \in phasePrev, q \in phaseOut :
          /\ p <= q
          /\ p = CLOSEABLE => q = CLOSEABLE

(* The state moved from BIDDING to CLOSEABLE as time passed the reveal end *)
C36_Witness ==
    /\ phasePrev = {BIDDING}
    /\ phaseOut = {CLOSEABLE}
    /\ 0 < phaseIn.start
    /\ phaseIn.start < phaseIn.end
    /\ phaseIn.end < phaseIn.reveal_end
    /\ phaseIn.now > phaseIn.reveal_end

RevealCalls == {i \in DOMAIN calls : calls[i].fn = "reveal"}

(* C37: a restart leaves the stored bid empty and both totals 0 whatever they were, and
   the restarted Coordinator, as long as it has stored no new bid, submits no reveal:
   the bid it had committed before the restart is not revealed, also in cycles that
   derive REVEAL. *)
C37_RestartDropsBid ==
    /\ op.name = "restart" =>
          /\ bid_amount = 0
          /\ total_energy_bought = 0
          /\ total_energy_sold = 0
    /\ (dropped.bid > 0 /\ op.name \in {"run", "reveal"} /\ op.bid_before = 0) =>
          RevealCalls = {}

(* A bid was stored and a sealed bid accepted by the ledger when the Coordinator was
   restarted; a later cycle read the same auction's timings, derived REVEAL and
   submitted nothing *)
C37_Witness ==
    /\ dropped.bid > 0
    /\ dropped.accepted
    /\ dropped.timings = ledger
    /\ op.name = "run"
    /\ op.timings = ledger
    /\ op.phase = {REVEAL}
    /\ op.msg = "none"
    /\ op.bid_before = 0
    /\ calls = <<>>

(* C38: a successful closeAuction that reads winner = self and seller = self records
   Buy and no Sell, adds the ledger's energy amount to total_energy_bought and leaves
   total_energy_sold unchanged. *)
C38_SelfTradeIsBuy ==
    [][(op'.closed = "ok" /\ op'.winner = Self /\ op'.seller = Self)
         => /\ Recorded("Auction Buy")'
            /\ ~Recorded("Auction Sell")'
            /\ total_energy_bought' = total_energy_bought + op'.energy
            /\ total_energy_sold' = total_energy_sold]_vars

(* A close read this account as both winner and seller of 2 units: Buy is recorded
   with this account as counterparty, and nothing was sold *)
C38_Witness ==
    /\ op.closed = "ok"
    /\ op.winner = Self
    /\ op.seller = Self
    /\ op.energy = 2
    /\ total_energy_bought = 2
    /\ total_energy_sold = 0
    /\ \E i \in OutcomeEntries :
          audit[i].event_type = "Auction Buy" /\ audit[i].counterparty = Self

(* The evaluation of the last cycle found every dependency of gui resolved except
   negotiation *)
GuiWaitsForNegotiation ==
    /\ evalTime # NoEval
    /\ unresolved_dependencies("gui", last_message, evalTime) = {"negotiation"}

(* C39: negotiation never sends to the Hub, so no evaluation dispatches a Bundle to
   gui, which depends on it; and grid and house, whose dependency lists are empty, are
   never sent a Bundle either. *)
C39_NoBundleForGui ==
    /\ outbox["gui"] = NoBundle
    /\ outbox["grid"] = NoBundle
    /\ outbox["house"] = NoBundle

(* house and behavioralsegmentation are fresh in the cache, prediction is sent its
   Bundle by this evaluation, and gui is sent nothing *)
C39_Witness ==
    /\ GuiWaitsForNegotiation
    /\ outbox["prediction"] # NoBundle
    /\ outbox["gui"] = NoBundle

(* C40: a cycle that derives state 3 invokes closeAuction and nothing else, and returns
   without calling receive: it waits for no message and takes none; a cycle that finds
   web3 disconnected invokes nothing, submits nothing to the ledger, logs nothing and
   takes no message. *)
C40_CloseAndDisconnectedSkipReceive ==
    /\ (op.name = "run" /\ op.phase = {CLOSEABLE}) =>
          /\ op.methods = <<"closeAuction">>
          /\ calls = <<Call("closeAuction", <<>>)>>
          /\ op.msg = "none"
          /\ op.waited = 0
    /\ (op.name = "run" /\ op.msg = "disconnected") =>
          /\ op.methods = <<>>
          /\ calls = <<>>
          /\ audit = <<>>
          /\ op.waited = 0
          /\ op.phase = NoValue
          /\ cnow = op.at + disconnected_sleep

(* A cycle derived CLOSEABLE with a stored bid, closed the auction and ended 7 seconds
   later (2 s wait, 5 s sleep), with no time spent in receive *)
C40_Witness ==
    /\ op.name = "run"
    /\ op.phase = {CLOSEABLE}
    /\ op.closed = "ok"
    /\ op.bid_before > 0
    /\ op.waited = 0
    /\ cnow = op.at + close_wait + close_sleep

====
